---------------------------- MODULE Spec2Model ----------------------------
(***************************************************************************)
(* A model of LibraryNet/utils.py: the four computational utilities        *)
(*   atom_bond_dict, strainfunction, nn_atomdistance, optimize_image_size. *)
(* Each function is a call whose arguments are drawn in Init and whose     *)
(* body is stepped through by the actions below.  The variable fn says     *)
(* which function a behaviour calls; the other functions' variables stay   *)
(* idle.                                                                   *)
(*                                                                         *)
(* Floating-point numbers are modelled by exact rationals: a number is an  *)
(* integer, or a pair <<n, d>> with d > 0 in lowest terms; a 2x2 matrix is *)
(* a record [n |-> <<<<a, b>>, <<c, d>>>>, d |-> den] in lowest terms.     *)
(* The floats inf, -inf and nan are the pairs <<1, 0>>, <<-1, 0>> and      *)
(* <<0, 0>>.  Python's None is the record None.                            *)
(***************************************************************************)
EXTENDS Integers, Sequences, FiniteSets, TLC

VARIABLES
    fn,                \* the function this behaviour calls
    \* ---- atom_bond_dict
    d_args,            \* [atom1, atom2, bond11, bond12, bond22]
    d_pc,              \* "call" | "returned"
    d_out,             \* None before the return, then [atoms, approx_max_bonds]
    d_lookup,          \* the caller's lookups so far: a set of [pair, value]
    \* ---- strainfunction
    molecule_coord1,   \* sequence of <<x, y>>
    molecule_coord2,   \* sequence of <<x, y>>
    truth,             \* the transform the caller built coord2 with, or None
    s_pc,              \* "call" | "fit" | "decompose" | "returned"
    s_fit,             \* None, then [t_est, F_est]
    printed,           \* whether the mismatch message was printed
    out,               \* None, or the returned OrderedDict
    \* ---- nn_atomdistance
    coord,             \* function 0..N-1 -> <<x, y>> (the rows of coord[:,:2])
    i1,                \* the row the loop is at
    answers,           \* i2[-1] of the queries made so far, by row
    checked_coord,     \* sequence of <<i, j>>
    distances_all,     \* sequence of distances, each a rational or inf
    n_pc,              \* "loop" | "returned"
    n_out,             \* None, then [mean, std]
    \* ---- optimize_image_size
    r_args,            \* [image_size, scan_size, px2ang, divisible_by]
    px2ang_i,          \* rational <<n, d>>
    image_size_new,    \* a float with an integer value: <<n, 1>>, inf or nan
    n_perturb,         \* executions of the loop body so far
    r_pc,              \* "call" | "loop" | "resize" | "returned" | "raised"
    r_out              \* None, then the shape <<h, w>> of the returned image

None == [kind |-> "None"]

dict_vars == <<d_args, d_pc, d_out, d_lookup>>
strain_vars == <<molecule_coord1, molecule_coord2, truth, s_pc, s_fit, printed, out>>
nn_vars == <<coord, i1, answers, checked_coord, distances_all, n_pc, n_out>>
resize_vars == <<r_args, px2ang_i, image_size_new, n_perturb, r_pc, r_out>>
vars == <<fn, dict_vars, strain_vars, nn_vars, resize_vars>>

DictIdle ==
    /\ d_args = None /\ d_pc = "idle" /\ d_out = None /\ d_lookup = {}
StrainIdle ==
    /\ molecule_coord1 = <<>> /\ molecule_coord2 = <<>> /\ truth = None
    /\ s_pc = "idle" /\ s_fit = None /\ printed = FALSE /\ out = None
NNIdle ==
    /\ coord = <<>> /\ i1 = 0 /\ answers = <<>> /\ checked_coord = <<>>
    /\ distances_all = <<>> /\ n_pc = "idle" /\ n_out = None
ResizeIdle ==
    /\ r_args = None /\ px2ang_i = None /\ image_size_new = None
    /\ n_perturb = 0 /\ r_pc = "idle" /\ r_out = None

(***************************************************************************)
(* Exact arithmetic.                                                       *)
(***************************************************************************)
Abs(a) == IF a < 0 THEN -a ELSE a

Sign(a) == IF a < 0 THEN -1 ELSE IF a > 0 THEN 1 ELSE 0

RECURSIVE Gcd(_, _)
Gcd(a, b) == IF b = 0 THEN Abs(a) ELSE Gcd(b, a % Abs(b))

\* The rational n/d (d # 0) in lowest terms with a positive denominator.
Rat(n, d) ==
    LET g == Gcd(n, d)
    IN  <<Sign(d) * (n \div g), Abs(d) \div g>>

\* Floats: the rational n/d, or inf (<<1, 0>>), -inf (<<-1, 0>>), nan (<<0, 0>>),
\* with IEEE arithmetic on them.
Inf == <<1, 0>>

NaN == <<0, 0>>

IsFinite(a) == a[2] # 0

FNorm(n, d) == IF d = 0 THEN <<Sign(n), 0>> ELSE Rat(n, d)

FMul(a, b) == FNorm(a[1] * b[1], a[2] * b[2])

FNeg(a) == <<-a[1], a[2]>>

FAdd(a, b) ==
    IF IsFinite(a) /\ IsFinite(b) THEN Rat(a[1] * b[2] + b[1] * a[2], a[2] * b[2])
    ELSE IF a = NaN \/ b = NaN THEN NaN
    ELSE IF IsFinite(b) THEN a
    ELSE IF IsFinite(a) THEN b
    ELSE IF a = b THEN a ELSE NaN

FSub(a, b) == FAdd(a, FNeg(b))

\* a / b as numpy divides float64 scalars: x / 0 is inf or -inf by the sign of
\* x, 0 / 0 is nan (each with a warning).  Python floats raise
\* ZeroDivisionError where the divisor is zero; the actions that divide
\* Python floats take that outcome in a branch of their own.
FDiv(a, b) ==
    IF b[1] = 0 /\ b[2] # 0 THEN FNorm(a[1], 0)
    ELSE FMul(a, <<Sign(b[1]) * b[2], Abs(b[1])>>)

IsSquare(n) == n >= 0 /\ \E r \in 0..n : r * r = n

\* The square root of a perfect square.
Sqrt(n) == CHOOSE r \in 0..n : r * r = n

\* numpy.around on the rational n/d (d > 0): to the nearest integer, ties to
\* the even one.
Around(n, d) ==
    LET q == n \div d
        r == n % d
    IN  IF 2 * r < d THEN q
        ELSE IF 2 * r > d THEN q + 1
        ELSE IF q % 2 = 0 THEN q ELSE q + 1

RECURSIVE SeqSum(_)
SeqSum(s) == IF s = <<>> THEN 0 ELSE Head(s) + SeqSum(Tail(s))

(***************************************************************************)
(* atom_bond_dict (utils.py 145-159).                                      *)
(***************************************************************************)
Species == {"C", "Si", "N"}

DefaultDictArgs ==
    [atom1 |-> "C", atom2 |-> "Si",
     bond11 |-> <<"C", "C", 175>>,
     bond12 |-> <<"Si", "C", 210>>,
     bond22 |-> <<"Si", "Si", 250>>]

\* The arguments the model calls atom_bond_dict with: the defaults, and
\* every choice of the two labels with bonds between them.
DictArgs ==
    {DefaultDictArgs} \cup
    { [atom1 |-> a, atom2 |-> b,
       bond11 |-> <<a, a, 175>>,
       bond12 |-> <<p[1], p[2], 210>>,
       bond22 |-> <<b, b, 250>>] :
         a \in Species, b \in Species, p \in Species \X Species }

\* An OrderedDict is the sequence of its <<key, value>> items in insertion
\* order; assigning to a key already present keeps its place.
OrderedDictSet(od, key, value) ==
    IF \E i \in 1..Len(od) : od[i][1] = key
    THEN [i \in 1..Len(od) |-> IF od[i][1] = key THEN <<key, value>> ELSE od[i]]
    ELSE Append(od, <<key, value>>)

\* A dict display {k1: v1, k2: v2, k3: v3}: a later item replaces an earlier
\* one with an equal key (the keys are tuples, compared component-wise).
DictDisplay(items) ==
    LET keys == {items[i][1] : i \in 1..Len(items)}
        last(k) == CHOOSE i \in 1..Len(items) :
                      /\ items[i][1] = k
                      /\ \A j \in 1..Len(items) : items[j][1] = k => j <= i
    IN  [k \in keys |-> items[last(k)][2]]

\* utils.py 153-159: atoms and approx_max_bonds, keyed by the tuples
\* (bond[0], bond[1]).
atom_bond_dict(a) ==
    [atoms |-> OrderedDictSet(OrderedDictSet(<<>>, "lattice_atom", a.atom1),
                              "dopant", a.atom2),
     approx_max_bonds |->
        DictDisplay(<< <<<<a.bond11[1], a.bond11[2]>>, a.bond11[3]>>,
                       <<<<a.bond12[1], a.bond12[2]>>, a.bond12[3]>>,
                       <<<<a.bond22[1], a.bond22[2]>>, a.bond22[3]>> >>)]

\* approx_max_bonds[(a, b)] as a caller evaluates it: the value, or KeyError.
DictGetItem(d, key) ==
    IF key \in DOMAIN d THEN [value |-> d[key]] ELSE [raised |-> "KeyError"]

InitDict ==
    /\ fn = "atom_bond_dict"
    /\ d_args \in DictArgs
    /\ d_pc = "call" /\ d_out = None /\ d_lookup = {}
    /\ StrainIdle /\ NNIdle /\ ResizeIdle

DictCall ==
    /\ fn = "atom_bond_dict" /\ d_pc = "call"
    /\ d_out' = atom_bond_dict(d_args)
    /\ d_pc' = "returned"
    /\ UNCHANGED <<fn, d_args, d_lookup, strain_vars, nn_vars, resize_vars>>

\* The caller reads the bond length of a pair of species.
DictLookup ==
    /\ fn = "atom_bond_dict" /\ d_pc = "returned"
    /\ \E a \in Species, b \in Species :
          /\ d_lookup = {}
          /\ d_lookup' = {[pair |-> <<a, b>>,
                           value |-> DictGetItem(d_out.approx_max_bonds, <<a, b>>)]}
    /\ UNCHANGED <<fn, d_args, d_pc, d_out, strain_vars, nn_vars, resize_vars>>

NextDict == DictCall \/ DictLookup

SpecDict == InitDict /\ [][NextDict]_vars


(***************************************************************************)
(* 2x2 matrices and 2-vectors over the rationals.                          *)
(***************************************************************************)
Identity2 == <<<<1, 0>>, <<0, 1>>>>

\* Integer 2x2 matrices: products, transpose, determinant, adjugate.
IMul(A, B) ==
    <<<<A[1][1] * B[1][1] + A[1][2] * B[2][1], A[1][1] * B[1][2] + A[1][2] * B[2][2]>>,
      <<A[2][1] * B[1][1] + A[2][2] * B[2][1], A[2][1] * B[1][2] + A[2][2] * B[2][2]>>>>

ITranspose(A) == <<<<A[1][1], A[2][1]>>, <<A[1][2], A[2][2]>>>>

IDet(A) == A[1][1] * A[2][2] - A[1][2] * A[2][1]

IAdj(A) == <<<<A[2][2], -A[1][2]>>, <<-A[2][1], A[1][1]>>>>

IScale(k, A) == <<<<k * A[1][1], k * A[1][2]>>, <<k * A[2][1], k * A[2][2]>>>>

IApply(A, p) == <<A[1][1] * p[1] + A[1][2] * p[2], A[2][1] * p[1] + A[2][2] * p[2]>>

\* The rational matrix N/d (d # 0) in lowest terms with d > 0.
RMat(N, d) ==
    LET g == Gcd(Gcd(Gcd(N[1][1], N[1][2]), Gcd(N[2][1], N[2][2])), d)
        k == Sign(d) * g
    IN  [n |-> <<<<N[1][1] \div k, N[1][2] \div k>>, <<N[2][1] \div k, N[2][2] \div k>>>>,
         d |-> Abs(d) \div g]

\* The rational vector v/d (d # 0) in lowest terms with d > 0.
RVec(v, d) ==
    LET g == Gcd(Gcd(v[1], v[2]), d)
        k == Sign(d) * g
    IN  [n |-> <<v[1] \div k, v[2] \div k>>, d |-> Abs(d) \div g]

\* A @ B, A.T and numpy.linalg.inv(A) (of an invertible A).
RMul(A, B) == RMat(IMul(A.n, B.n), A.d * B.d)

RTranspose(A) == RMat(ITranspose(A.n), A.d)

RInv(A) == RMat(IScale(A.d, IAdj(A.n)), IDet(A.n))

(***************************************************************************)
(* strainfunction (utils.py 161-202).                                      *)
(***************************************************************************)
\* Determinant of a 3x3 integer matrix, and the matrix with column j
\* replaced by the vector b (Cramer's rule).
Det3(G) ==
      G[1][1] * (G[2][2] * G[3][3] - G[2][3] * G[3][2])
    - G[1][2] * (G[2][1] * G[3][3] - G[2][3] * G[3][1])
    + G[1][3] * (G[2][1] * G[3][2] - G[2][2] * G[3][1])

ReplaceCol(G, j, b) ==
    [r \in 1..3 |-> [c \in 1..3 |-> IF c = j THEN b[r] ELSE G[r][c]]]

\* The rows of M (utils.py 188-191), built from points_ref: row 2i is
\* [1, 0, x, y, 0, 0] and row 2i+1 is [0, 1, 0, 0, x, y].  The two kinds of
\* row share no unknown, so M.T @ M is the Gram matrix of the rows
\* [1, x, y] once for the unknowns (0, 2, 3) and once for (1, 4, 5).
DesignRow(p) == <<1, p[1], p[2]>>

Gram(points_ref, n_points) ==
    [r \in 1..3 |-> [c \in 1..3 |->
        SeqSum([i \in 1..n_points |->
                  DesignRow(points_ref[i])[r] * DesignRow(points_ref[i])[c]])]]

\* M.T @ y restricted to the rows of one coordinate k of points_tar.
Moment(points_ref, points_tar, n_points, k) ==
    [r \in 1..3 |->
        SeqSum([i \in 1..n_points |-> DesignRow(points_ref[i])[r] * points_tar[i][k]])]

\* Whether M has full column rank, which is when numpy.linalg.pinv(M) @ y
\* is the solution of the normal equations.
FullRank(points_ref, n_points) == Det3(Gram(points_ref, n_points)) # 0

\* x = numpy.linalg.pinv(M) @ y for M of full column rank, as the six
\* numerators over the common denominator det(Gram): x[0:2] is the
\* translation and x[2:] the linear map, row by row.
LstSq(points_ref, points_tar, n_points) ==
    LET G == Gram(points_ref, n_points)
        bx == Moment(points_ref, points_tar, n_points, 1)
        by == Moment(points_ref, points_tar, n_points, 2)
    IN  [x |-> <<Det3(ReplaceCol(G, 1, bx)), Det3(ReplaceCol(G, 1, by)),
                 Det3(ReplaceCol(G, 2, bx)), Det3(ReplaceCol(G, 3, bx)),
                 Det3(ReplaceCol(G, 2, by)), Det3(ReplaceCol(G, 3, by))>>,
         d |-> Det3(G)]

\* t_est = x[0:2] and F_est = x[2:].reshape(2, 2) (utils.py 192-194).
StrainFitResult(coord1, coord2) ==
    LET n_points == Len(coord2)
        sol == LstSq(coord1, coord2, n_points)
    IN  [t_est |-> RVec(<<sol.x[1], sol.x[2]>>, sol.d),
         F_est |-> RMat(<<<<sol.x[3], sol.x[4]>>, <<sol.x[5], sol.x[6]>>>>, sol.d)]

\* numpy.linalg.eig of a symmetric 2x2 matrix A (LAPACK dgeev, whose 2x2
\* Schur step is dlanv2).  A diagonal matrix keeps its diagonal as w and has
\* v = I.  Otherwise, with p = (a - d)/2 and z = p + sign(p) sqrt(p^2 + bc)
\* (sign(0) = +1): w = (d + z, d - bc/z) and v = [[cs, -sn], [sn, cs]] with
\* (cs, sn) = (z, c) / hypot(c, z).  The result is w as two rationals, and v
\* as the integer matrix u with v = u / sqrt(norm2).
Eig(A) ==
    LET a == A.n[1][1]
        b == A.n[1][2]
        c == A.n[2][1]
        d == A.n[2][2]
        twop == a - d
        s == Sqrt(twop * twop + 4 * b * c)
        twoz == twop + (IF twop >= 0 THEN s ELSE -s)
    IN  IF c = 0
        THEN [w |-> <<Rat(a, A.d), Rat(d, A.d)>>, u |-> Identity2, norm2 |-> 1]
        ELSE [w |-> <<Rat(2 * d + twoz, 2 * A.d), Rat(d * twoz - 2 * b * c, twoz * A.d)>>,
              u |-> <<<<twoz, -2 * c>>, <<2 * c, twoz>>>>,
              norm2 |-> twoz * twoz + 4 * c * c]

\* Whether Eig(A) and the square roots of its eigenvalues are rational.
EigExact(A) ==
    /\ IsSquare((A.n[1][1] - A.n[2][2]) * (A.n[1][1] - A.n[2][2])
                + 4 * A.n[1][2] * A.n[2][1])
    /\ \A k \in 1..2 : IsSquare(Eig(A).w[k][1]) /\ IsSquare(Eig(A).w[k][2])

\* numpy.sqrt of a rational whose numerator and denominator are squares.
RSqrt(q) == <<Sqrt(q[1]), Sqrt(q[2])>>

\* utils.py 196: E_est = v.T @ diag(sqrt(w[0]), sqrt(w[1])) @ v.
StrainTensor(e) ==
    LET r1 == RSqrt(e.w[1])
        r2 == RSqrt(e.w[2])
        D == <<<<r1[1] * r2[2], 0>>, <<0, r2[1] * r1[2]>>>>   \* over r1[2] * r2[2]
    IN  RMat(IMul(IMul(ITranspose(e.u), D), e.u), e.norm2 * r1[2] * r2[2])

\* utils.py 195-201: the OrderedDict strainfunction returns.
StrainDecomposition(fit) ==
    LET F_est == fit.F_est
        e == Eig(RMul(RTranspose(F_est), F_est))
        E_est == StrainTensor(e)
        R_est == RMul(F_est, RInv(E_est))
    IN  OrderedDictSet(OrderedDictSet(OrderedDictSet(<<>>,
            "translational vector", fit.t_est),
            "strain_tensor", E_est),
            "rotation_matrix", R_est)

\* out[key] of a returned OrderedDict.
OrderedDictGet(od, key) == od[CHOOSE i \in 1..Len(od) : od[i][1] = key][2]

\* A guard that notices only a shorter first set.
LengthMismatch_shorter(coord1, coord2) == Len(coord1) < Len(coord2)

\* utils.py 180: the precondition strainfunction checks.
LengthMismatch(coord1, coord2) == Len(coord1) # Len(coord2)


\* ---- the calls of strainfunction the model makes
MaxPoints == 3
MaxStretch == 3
MaxShear == 1

Sites == (0..1) \X (0..1)

\* Reference point sets: 3 to MaxPoints rows that determine an affine map.
RefSets ==
    { P \in UNION { [1..n -> Sites] : n \in 3..MaxPoints } : FullRank(P, Len(P)) }

\* Rotations by multiples of a quarter turn.
Rotations ==
    { <<<<1, 0>>, <<0, 1>>>>, <<<<0, -1>>, <<1, 0>>>>,
      <<<<-1, 0>>, <<0, -1>>>>, <<<<0, 1>>, <<-1, 0>>>> }

\* Symmetric positive-definite strains with rational eigenvalues.
Strains ==
    { E \in { <<<<a, b>>, <<b, d>>>> :
                a \in 1..MaxStretch, d \in 1..MaxStretch, b \in (-MaxShear)..MaxShear } :
        /\ IDet(E) > 0
        /\ IsSquare((E[1][1] - E[2][2]) * (E[1][1] - E[2][2]) + 4 * E[1][2] * E[1][2]) }

Translations == { <<0, 0>>, <<2, -1>> }

\* P' = F.P + t0 with F = R0.E0, point by point.
ApplyTransform(P, R0, E0, t0) ==
    [i \in 1..Len(P) |->
        <<IApply(IMul(R0, E0), P[i])[1] + t0[1], IApply(IMul(R0, E0), P[i])[2] + t0[2]>>]

\* Either a round trip (coord2 is coord1 transformed), or two point sets of
\* unequal length (rows lost from either side of a translated pair).
InitStrain ==
    /\ fn = "strainfunction"
    /\ \E P \in RefSets, t0 \in Translations :
          \/ \E R0 \in Rotations, E0 \in Strains :
                /\ molecule_coord1 = P
                /\ molecule_coord2 = ApplyTransform(P, R0, E0, t0)
                /\ truth = [R0 |-> RMat(R0, 1), E0 |-> RMat(E0, 1), t0 |-> RVec(t0, 1)]
          \/ \E n1 \in 0..Len(P), n2 \in 0..Len(P) :
                /\ n1 # n2
                /\ molecule_coord1 = SubSeq(P, 1, n1)
                /\ molecule_coord2 = SubSeq(ApplyTransform(P, Identity2, Identity2, t0), 1, n2)
                /\ truth = None
    /\ s_pc = "call" /\ s_fit = None /\ printed = FALSE /\ out = None
    /\ DictIdle /\ NNIdle /\ ResizeIdle

\* utils.py 180-183: on a mismatch print the message and return None.
StrainCheck ==
    /\ fn = "strainfunction" /\ s_pc = "call"
    /\ IF LengthMismatch(molecule_coord1, molecule_coord2)
       THEN /\ printed' = TRUE
            /\ out' = None
            /\ s_pc' = "returned"
       ELSE /\ s_pc' = "fit"
            /\ UNCHANGED <<printed, out>>
    /\ UNCHANGED <<fn, molecule_coord1, molecule_coord2, truth, s_fit,
                   dict_vars, nn_vars, resize_vars>>

\* utils.py 184-194: the least-squares fit (for M of full column rank).  The
\* loop reads n_points = len(molecule_coord2) rows of points_ref.
StrainFit ==
    /\ fn = "strainfunction" /\ s_pc = "fit"
    /\ Len(molecule_coord2) <= Len(molecule_coord1)
    /\ FullRank(molecule_coord1, Len(molecule_coord2))
    /\ s_fit' = StrainFitResult(molecule_coord1, molecule_coord2)
    /\ s_pc' = "decompose"
    /\ UNCHANGED <<fn, molecule_coord1, molecule_coord2, truth, printed, out,
                   dict_vars, nn_vars, resize_vars>>

\* utils.py 195-202: the decomposition and the return (for an invertible
\* F_est whose singular values are rational).
StrainDecompose ==
    /\ fn = "strainfunction" /\ s_pc = "decompose"
    /\ IDet(s_fit.F_est.n) # 0
    /\ EigExact(RMul(RTranspose(s_fit.F_est), s_fit.F_est))
    /\ out' = StrainDecomposition(s_fit)
    /\ s_pc' = "returned"
    /\ UNCHANGED <<fn, molecule_coord1, molecule_coord2, truth, s_fit, printed,
                   dict_vars, nn_vars, resize_vars>>

NextStrain == StrainCheck \/ StrainFit \/ StrainDecompose

SpecStrain == InitStrain /\ [][NextStrain]_vars


StrainReturned == fn = "strainfunction" /\ s_pc = "returned"

\* C1: once strainfunction has acted on two point sets of unequal length
\* it has returned None after printing the mismatch message, without a fit
\* (and so without a decomposition), whatever the two lengths are.
C1_MismatchReturnsNone ==
    (/\ fn = "strainfunction" /\ s_pc # "call"
     /\ Len(molecule_coord1) # Len(molecule_coord2))
    => (s_pc = "returned" /\ out = None /\ printed /\ s_fit = None)

C1_Witness ==
    /\ StrainReturned
    /\ Len(molecule_coord1) = 0 /\ Len(molecule_coord2) > 0
    /\ out = None /\ printed

\* C2: the round-trip law.  When coord2 is coord1 transformed by F = R0.E0
\* and then t0, the returned translation, strain tensor and rotation matrix
\* are t0, E0 and R0.
C2_RoundTrip ==
    (StrainReturned /\ truth # None)
    => /\ OrderedDictGet(out, "translational vector") = truth.t0
       /\ OrderedDictGet(out, "strain_tensor") = truth.E0
       /\ OrderedDictGet(out, "rotation_matrix") = truth.R0

IsSymmetric(E) == E.n[1][2] = E.n[2][1]

IsPosSemiDef(E) == E.n[1][1] >= 0 /\ E.n[2][2] >= 0 /\ IDet(E.n) >= 0

IsOrthogonal(R) == RMul(RTranspose(R), R) = RMat(Identity2, 1)

\* C3: for equal-length input with an invertible fitted map F, the returned
\* strain tensor E is symmetric and positive semi-definite, and the returned
\* rotation matrix R is the orthogonal factor left over: R.E = F and
\* R^T.R = I.
C3_PolarFactors ==
    (StrainReturned /\ s_fit # None /\ IDet(s_fit.F_est.n) # 0)
    => LET E == OrderedDictGet(out, "strain_tensor")
           R == OrderedDictGet(out, "rotation_matrix")
       IN  /\ IsSymmetric(E)
           /\ IsPosSemiDef(E)
           /\ RMul(R, E) = s_fit.F_est
           /\ IsOrthogonal(R)


(***************************************************************************)
(* nn_atomdistance (utils.py 204-227).                                     *)
(***************************************************************************)
RECURSIVE FSum(_)
FSum(xs) == IF xs = <<>> THEN <<0, 1>> ELSE FAdd(Head(xs), FSum(Tail(xs)))

\* numpy.sqrt of a float: exact on squares (and on inf and nan), and left
\* as a square root otherwise.
FSqrt(a) ==
    IF IsSquare(a[1]) /\ IsSquare(a[2]) THEN <<Sqrt(a[1]), Sqrt(a[2])>>
    ELSE IF a[1] < 0 THEN NaN
    ELSE [sqrt_of |-> a]

\* numpy.mean of a list: the sum over the count (0/0 = nan for no items).
np_mean(xs) == FDiv(FSum(xs), <<Len(xs), 1>>)

\* numpy.std of a list: sqrt(mean(abs(x - mean(x))**2)).
np_std(xs) ==
    LET m == np_mean(xs)
        dev2 == [k \in 1..Len(xs) |-> FMul(FSub(xs[k], m), FSub(xs[k], m))]
    IN  FSqrt(np_mean(dev2))

NRows(c) == Cardinality(DOMAIN c)

Dist2(p, q) == (p[1] - q[1]) * (p[1] - q[1]) + (p[2] - q[2]) * (p[2] - q[2])

\* The squared distance from row i to its second-closest row of c (itself
\* included), for c of two rows or more.
SecondDist2(c, i) ==
    LET ds == {Dist2(c[i], c[j]) : j \in DOMAIN c}
        m1 == CHOOSE m \in ds : \A e \in ds : m <= e
        n1 == Cardinality({j \in DOMAIN c : Dist2(c[i], c[j]) = m1})
    IN  IF n1 >= 2 THEN m1
        ELSE CHOOSE m \in ds \ {m1} : \A e \in ds \ {m1} : m <= e

\* A query that reads the closest entry, d[0] and i2[0].
QueryFirst(c, i) == {[d |-> <<0, 1>>, i |-> j] : j \in {k \in DOMAIN c : c[k] = c[i]}}

\* (d[-1], i2[-1]) of spatial.KDTree(c).query(c[i], k=2): the second of the
\* two closest rows in order of distance.  Rows at equal distance come in an
\* order the tree decides, so every row at the second-closest distance is a
\* possible answer; with a single row the second neighbour is missing, which
\* scipy reports as distance inf and index n.
QueryLast(c, i) ==
    IF NRows(c) < 2
    THEN {[d |-> Inf, i |-> NRows(c)]}
    ELSE {[d |-> FSqrt(<<SecondDist2(c, i), 1>>), i |-> j] :
             j \in {k \in DOMAIN c : Dist2(c[i], c[k]) = SecondDist2(c, i)}}

SeqRange(s) == {s[k] : k \in 1..Len(s)}

\* ---- the calls of nn_atomdistance the model makes
MaxRows == 4

NNSites == (0..2) \X (0..1)

\* Arrays of 0 to MaxRows rows whose nearest-neighbour distances are
\* rational, so that every float of the run is exact.
CoordArrays ==
    { c \in UNION { [0..(n - 1) -> NNSites] : n \in 0..MaxRows } :
        NRows(c) >= 2 => \A i \in DOMAIN c : IsSquare(SecondDist2(c, i)) }

\* Whether the set S of points is a full m x n square lattice of spacing d.
IsLatticeSet(S, d) ==
    /\ S # {}
    /\ LET xs == {p[1] : p \in S}
           ys == {p[2] : p \in S}
           x0 == CHOOSE x \in xs : \A e \in xs : x <= e
           y0 == CHOOSE y \in ys : \A e \in ys : y <= e
           x1 == CHOOSE x \in xs : \A e \in xs : x >= e
           y1 == CHOOSE y \in ys : \A e \in ys : y >= e
       IN  S = { p \in (x0..x1) \X (y0..y1) : (p[1] - x0) % d = 0 /\ (p[2] - y0) % d = 0 }

\* Whether the rows of c are the sites of a square lattice of spacing d, each
\* site once, two sites or more.
IsSquareLattice(c, d) ==
    /\ NRows(c) >= 2
    /\ \A i \in DOMAIN c, j \in DOMAIN c : c[i] = c[j] => i = j
    /\ IsLatticeSet({c[i] : i \in DOMAIN c}, d)

\* The whole grid of sites as an array, in every order of its rows.
GridArrays ==
    { c \in [0..(Cardinality(NNSites) - 1) -> NNSites] : IsSquareLattice(c, 1) }

InitNN ==
    /\ fn = "nn_atomdistance"
    /\ coord \in CoordArrays \cup GridArrays
    /\ i1 = 0 /\ answers = <<>> /\ checked_coord = <<>> /\ distances_all = <<>>
    /\ n_pc = "loop" /\ n_out = None
    /\ DictIdle /\ StrainIdle /\ ResizeIdle

\* utils.py 222-226: one pass of the loop body.  The tree is built from the
\* same rows on every pass, so a query at coordinates queried before gets the
\* answer it got before.
NNIter ==
    /\ fn = "nn_atomdistance" /\ n_pc = "loop" /\ i1 < NRows(coord)
    /\ \E q \in QueryLast(coord, i1) :
          /\ \A j \in 0..(i1 - 1) : coord[j] = coord[i1] => answers[j + 1] = q.i
          /\ answers' = Append(answers, q.i)
          /\ IF <<q.i, i1>> \notin SeqRange(checked_coord)
             THEN /\ checked_coord' = Append(checked_coord, <<i1, q.i>>)
                  /\ distances_all' = Append(distances_all, q.d)
             ELSE UNCHANGED <<checked_coord, distances_all>>
    /\ i1' = i1 + 1
    /\ UNCHANGED <<fn, coord, n_pc, n_out, dict_vars, strain_vars, resize_vars>>

\* utils.py 227: the return after the last row.
NNReturn ==
    /\ fn = "nn_atomdistance" /\ n_pc = "loop" /\ i1 = NRows(coord)
    /\ n_out' = [mean |-> np_mean(distances_all), std |-> np_std(distances_all)]
    /\ n_pc' = "returned"
    /\ UNCHANGED <<fn, coord, i1, answers, checked_coord, distances_all,
                   dict_vars, strain_vars, resize_vars>>

NextNN == NNIter \/ NNReturn

SpecNN == InitNN /\ [][NextNN]_vars

NNReturned == fn = "nn_atomdistance" /\ n_pc = "returned"


(***************************************************************************)
(* optimize_image_size (utils.py 109-143).  The model follows the image's  *)
(* side length; the pixel values (and their normalisation, lines 131-132)  *)
(* play no part in it.                                                     *)
(***************************************************************************)
\* numpy.around of a float: inf and nan stay as they are.
FAround(a) == IF IsFinite(a) THEN <<Around(a[1], a[2]), 1>> ELSE a

\* utils.py 136 and 139: np.around(image_size * (px2ang / px2ang_i)).
TargetSize(image_size, px2ang, density) ==
    FAround(FMul(<<image_size, 1>>, FDiv(px2ang, density)))

\* A step that raises the density.
PerturbDensity_up(density) == FAdd(density, <<1, 1000>>)

\* utils.py 138: px2ang_i -= 0.001.
PerturbDensity(density) == FSub(density, <<1, 1000>>)

\* A loop test with the comparison turned round.
LoopTest_inverted(size, divisible_by) ==
    IF IsFinite(size) THEN size[1] % divisible_by = 0 ELSE TRUE

\* utils.py 137: image_size_new % divisible_by != 0, for divisible_by > 0
\* (inf % d is nan, which differs from 0).
LoopTest(size, divisible_by) ==
    IF IsFinite(size) THEN size[1] % divisible_by # 0 ELSE TRUE

\* ---- the calls of optimize_image_size the model makes: calls on which the
\* doubles of the code and the exact rationals of the model give the same
\* size on every pass.  (64, 4000, 12) is left out: its exact density is 0
\* after 16 passes where the double is a residue of -6.9e-18.  Sides 1, 2 and
\* 5 with scan_size 1000 reach the double 0.0 exactly.
DefaultPx2ang == <<16, 125>>

ResizeArgs ==
    ({ [image_size |-> s, scan_size |-> <<c, 1>>, px2ang |-> DefaultPx2ang,
        divisible_by |-> d] :
          s \in {64, 256, 512},
          c \in {3, 1000, 2000, 2010, 3264, 4000},
          d \in {8, 12, 16} }
     \ { [image_size |-> 64, scan_size |-> <<4000, 1>>, px2ang |-> DefaultPx2ang,
           divisible_by |-> 12] })
    \cup { [image_size |-> 512, scan_size |-> <<4, 1>>, px2ang |-> DefaultPx2ang,
            divisible_by |-> 8] }
    \cup { [image_size |-> s, scan_size |-> <<1000, 1>>, px2ang |-> DefaultPx2ang,
            divisible_by |-> 12] : s \in {1, 2, 5} }

InitResize ==
    /\ fn = "optimize_image_size"
    /\ r_args \in ResizeArgs
    /\ px2ang_i = None /\ image_size_new = None
    /\ n_perturb = 0 /\ r_pc = "call" /\ r_out = None
    /\ DictIdle /\ StrainIdle /\ NNIdle

\* utils.py 133-136: the density of the image and the first target size.
ResizeStart ==
    /\ fn = "optimize_image_size" /\ r_pc = "call"
    /\ px2ang_i' = FDiv(<<r_args.image_size, 1>>, r_args.scan_size)
    /\ image_size_new' = TargetSize(r_args.image_size, r_args.px2ang, px2ang_i')
    /\ r_pc' = "loop"
    /\ UNCHANGED <<fn, r_args, n_perturb, r_out, dict_vars, strain_vars, nn_vars>>

\* utils.py 137-139: one pass of the loop body.  When the density becomes
\* zero, the division of line 139 gives inf and the loop goes on (a numpy
\* float64 density, from a numpy scan_size), or raises ZeroDivisionError before
\* image_size_new is assigned (a Python float density).
ResizePerturb ==
    /\ fn = "optimize_image_size" /\ r_pc = "loop"
    /\ LoopTest(image_size_new, r_args.divisible_by)
    /\ px2ang_i' = PerturbDensity(px2ang_i)
    /\ n_perturb' = n_perturb + 1
    /\ \/ /\ image_size_new' = TargetSize(r_args.image_size, r_args.px2ang, px2ang_i')
          /\ r_pc' = "loop"
       \/ /\ px2ang_i'[1] = 0
          /\ image_size_new' = image_size_new
          /\ r_pc' = "raised"
    /\ UNCHANGED <<fn, r_args, r_out, dict_vars, strain_vars, nn_vars>>

\* utils.py 141-143: cv2.resize to (int(image_size_new), int(image_size_new))
\* and the return.  cv2.resize raises for a side that is not positive.
ResizeReturn ==
    /\ fn = "optimize_image_size" /\ r_pc = "loop"
    /\ ~LoopTest(image_size_new, r_args.divisible_by)
    /\ IF image_size_new[1] > 0
       THEN /\ r_out' = <<image_size_new[1], image_size_new[1]>>
            /\ r_pc' = "returned"
       ELSE /\ r_out' = None
            /\ r_pc' = "raised"
    /\ UNCHANGED <<fn, r_args, px2ang_i, image_size_new, n_perturb,
                   dict_vars, strain_vars, nn_vars>>

NextResize == ResizeStart \/ ResizePerturb \/ ResizeReturn

SpecResize == InitResize /\ [][NextResize]_vars

(***************************************************************************)
(* Any one of the four calls.                                              *)
(***************************************************************************)
Init == InitDict \/ InitStrain \/ InitNN \/ InitResize

Next == NextDict \/ NextStrain \/ NextNN \/ NextResize

Spec == Init /\ [][Next]_vars


(***************************************************************************)
(* The claims.                                                             *)
(***************************************************************************)
\* C4: nn_atomdistance on fewer than 2 points fails explicitly: it never
\* returns a (mean, standard deviation) pair for them, so never a pair
\* that holds inf or nan.
C4_FewPointsFail ==
    (fn = "nn_atomdistance" /\ NRows(coord) < 2) => n_pc # "returned"

\* C5: optimize_image_size ends its perturbation loop within the bound of
\* 100,000 passes, for every input.
C5_BoundedLoop ==
    fn = "optimize_image_size" => n_perturb <= 100000

\* C6: on a square lattice of spacing d (two distinct sites or more, in any
\* row order, whichever equidistant neighbour a query picks) every distance
\* collected is d, and nn_atomdistance returns mean d and standard
\* deviation 0.
C6_LatticeSpacing ==
    \A d \in 1..2 :
        (NNReturned /\ IsSquareLattice(coord, d))
        => /\ \A k \in 1..Len(distances_all) : distances_all[k] = <<d, 1>>
           /\ n_out = [mean |-> <<d, 1>>, std |-> <<0, 1>>]

C6_Witness ==
    /\ NNReturned /\ IsSquareLattice(coord, 1) /\ NRows(coord) = 6
    /\ answers[1] # answers[2]
    /\ n_out = [mean |-> <<1, 1>>, std |-> <<0, 1>>]

\* The first target size of a call: round(image_size * px2ang / (image_size / scan_size)).
InitialTarget ==
    Around(r_args.image_size * r_args.px2ang[1] * r_args.scan_size[1],
           r_args.px2ang[2] * r_args.scan_size[2] * r_args.image_size)

\* C7 as claimed: when the first target size is a multiple of divisible_by
\* the loop body never runs and the image is resized to exactly that size
\* (the call does not fail, and what it returns has that side); an image of
\* side 256 whose density equals px2ang, with divisible_by = 8, comes back
\* 256 by 256.
C7_NoPerturbation ==
    (fn = "optimize_image_size" /\ r_pc # "call")
    => /\ InitialTarget % r_args.divisible_by = 0
          => /\ n_perturb = 0
             /\ image_size_new = <<InitialTarget, 1>>
             /\ r_pc # "raised"
             /\ r_pc = "returned" => r_out = <<InitialTarget, InitialTarget>>
       /\ (/\ r_args.image_size = 256 /\ r_args.divisible_by = 8
           /\ FDiv(<<256, 1>>, r_args.scan_size) = r_args.px2ang)
          => /\ r_pc # "raised"
             /\ r_pc = "returned" => r_out = <<256, 256>>

\* C7 amended: when the first target size is a positive multiple of
\* divisible_by the loop body never runs, the call does not fail and the
\* image is resized to exactly that size; an image of side 256 whose density
\* equals px2ang, with divisible_by = 8, comes back 256 by 256.  When the
\* first target size is 0 the loop body never runs either, but cv2.resize
\* rejects the size and no image is returned.
C7_PositiveTarget ==
    (fn = "optimize_image_size" /\ r_pc # "call")
    => /\ (InitialTarget > 0 /\ InitialTarget % r_args.divisible_by = 0)
          => /\ n_perturb = 0
             /\ image_size_new = <<InitialTarget, 1>>
             /\ r_pc # "raised"
             /\ r_pc = "returned" => r_out = <<InitialTarget, InitialTarget>>
       /\ InitialTarget = 0
          => /\ n_perturb = 0
             /\ image_size_new = <<0, 1>>
             /\ r_pc # "returned"
       /\ (/\ r_args.image_size = 256 /\ r_args.divisible_by = 8
           /\ FDiv(<<256, 1>>, r_args.scan_size) = r_args.px2ang)
          => /\ r_pc # "raised"
             /\ r_pc = "returned" => r_out = <<256, 256>>

C7_Witness ==
    /\ fn = "optimize_image_size" /\ r_pc = "returned"
    /\ r_args.image_size = 256 /\ r_args.scan_size = <<2000, 1>>
    /\ r_args.divisible_by = 8
    /\ n_perturb = 0 /\ r_out = <<256, 256>>

\* C8: with the default arguments atoms is lattice_atom -> C then dopant ->
\* Si, and the bond mapping has three entries, one for each unordered pair of
\* species, that answer a pair in either order of its two species: C-C 175,
\* Si-C and C-Si 210, Si-Si 250.
C8_UnorderedPairs ==
    (fn = "atom_bond_dict" /\ d_pc = "returned" /\ d_args = DefaultDictArgs)
    => /\ d_out.atoms = << <<"lattice_atom", "C">>, <<"dopant", "Si">> >>
       /\ Cardinality({ {k[1], k[2]} : k \in DOMAIN d_out.approx_max_bonds }) = 3
       /\ \A a \in {"C", "Si"}, b \in {"C", "Si"} :
             /\ DictGetItem(d_out.approx_max_bonds, <<a, b>>)
                   = DictGetItem(d_out.approx_max_bonds, <<b, a>>)
             /\ DictGetItem(d_out.approx_max_bonds, <<a, b>>)
                   = [value |-> IF a = b THEN (IF a = "C" THEN 175 ELSE 250) ELSE 210]
       /\ \A l \in d_lookup :
             l.pair \in {"C", "Si"} \X {"C", "Si"} => l.value # [raised |-> "KeyError"]

\* The distinct unordered pairs {i, nn(i)} of a finished run.
NeighbourPairs == { {i, answers[i + 1]} : i \in DOMAIN coord }

\* C9: for any N >= 2 rows, the number of distances collected is the number
\* of distinct unordered pairs {i, nn(i)}; two rows that are each other's
\* nearest neighbour give one distance, not two; and every distance
\* collected is from a row to a different row, never to itself.
C9_PairsOnce ==
    (NNReturned /\ NRows(coord) >= 2)
    => /\ Len(distances_all) = Cardinality(NeighbourPairs)
       /\ \A i \in DOMAIN coord, j \in DOMAIN coord :
             (i # j /\ answers[i + 1] = j /\ answers[j + 1] = i)
             => Cardinality({k \in 1..Len(checked_coord) :
                    checked_coord[k] \in {<<i, j>>, <<j, i>>}}) = 1
       /\ \A k \in 1..Len(checked_coord) : checked_coord[k][1] # checked_coord[k][2]

\* C10: an image that optimize_image_size returns is square, its side a
\* positive multiple of divisible_by that is not smaller than the first
\* target size.
C10_ReturnedSize ==
    (fn = "optimize_image_size" /\ r_pc = "returned")
    => /\ r_out[1] = r_out[2]
       /\ r_out[1] > 0
       /\ r_out[1] % r_args.divisible_by = 0
       /\ r_out[1] >= InitialTarget

C10_Witness ==
    /\ fn = "optimize_image_size" /\ r_pc = "returned"
    /\ n_perturb > 0
    /\ r_out[1] > InitialTarget
    /\ r_out[1] % r_args.divisible_by = 0

=============================================================================
